---- MODULE Spec2Model ----
(***************************************************************************)
(* pibooth-gallery (src/pibooth-gallery.py): the per-capture callback      *)
(* state_processing_exit and the helpers it calls, as a state machine over *)
(* the file system, the shared application object and the callback's       *)
(* position.                                                               *)
(*                                                                         *)
(* Strings are sequences of tokens, so that stem + suffix + ext, rstrip    *)
(* and "/" joins are computed, not looked up.  None and the empty string   *)
(* are both the empty sequence (the code only tests them for truthiness).  *)
(* A path is a record [dir, name]; dir is a sequence of components.        *)
(***************************************************************************)
EXTENDS Integers, Sequences, FiniteSets, TLC

\* ------------------------------------------------------------------ bounds
MaxEvents == 2      \* capture events the host fires in one run
MaxWait == 2        \* largest configured QR wait, in poll intervals

\* ------------------------------------------------------------- vocabulary
None == <<>>
NoPath == [dir |-> <<>>, name |-> <<>>]
MkPath(d, n) == [dir |-> d, name |-> n]

Pics == {"photo1", "photo2"}
PicExt == <<".", "jpg">>
PicDir == <<"pics">>
PicName(p) == <<p>> \o PicExt
PicPath(p) == MkPath(PicDir, PicName(p))

\* Path.stem / Path.suffix of a name <<stem, ".", ext>>
Stem(n) == IF Len(n) >= 3 /\ n[Len(n) - 1] = "." THEN SubSeq(n, 1, Len(n) - 2) ELSE n
Suffix(n) == IF Len(n) >= 3 /\ n[Len(n) - 1] = "." THEN SubSeq(n, Len(n) - 1, Len(n)) ELSE <<>>

IsPrefix(s, t) == Len(s) <= Len(t) /\ SubSeq(t, 1, Len(s)) = s

RECURSIVE JoinSlash(_)
JoinSlash(comps) ==
    IF comps = <<>> THEN <<>> ELSE <<Head(comps), "/">> \o JoinSlash(Tail(comps))

\* str(path.relative_to(parent)), falling back to path.name when it raises
RelativeOrName(path, parent) ==
    IF IsPrefix(parent, path.dir)
    THEN JoinSlash(SubSeq(path.dir, Len(parent) + 1, Len(path.dir))) \o path.name
    ELSE path.name

\* ---------------------------------------------------------- configuration
TrueTokens == {"1", "true", "yes", "on"}
Lower(s) ==
    CASE s = "YES" -> "yes"
      [] s = "Yes" -> "yes"
      [] s = "ON" -> "on"
      [] s = "True" -> "true"
      [] s = "NO" -> "no"
      [] OTHER -> s
\* (cfg.get(...) or default).lower() in ('1', 'true', 'yes', 'on')
BoolOption(raw, default) == Lower(IF raw = "" THEN default ELSE raw) \in TrueTokens

ThumbSuffix == <<"_thumb">>
ManifestName == <<"thumbs", ".", "json">>
GalleryOutput == <<"gallery", ".", "html">>
TemplatePath == MkPath(<<"etc">>, <<"gallery_template", ".", "html">>)
QrSuffix == <<"_qrcode">>
QrExt == <<"png">>
QrSaveDir == <<"qrsave">>
HostOutDir == <<"out">>

\* the raw configuration file: GALLERY keys, and the foreign QRCODE section
\* (QRCODE_section = "absent" when the section is missing)
RawConfigs ==
    [ GALLERY_ENABLED : {"yes"},
      GALLERY_KEEP_ASPECT : {"yes"},
      GALLERY_OUTPUT_FOLDER : {None, <<"thumbs">>},
      GALLERY_UPDATE_MANIFEST : {"yes"},
      GALLERY_MANIFEST_INCLUDE_BASE_URL : {"yes"},
      GALLERY_BASE_URL : {None},
      GALLERY_TEMPLATE : {TemplatePath},
      GALLERY_QRCODE_WAIT_SECONDS : 0..MaxWait,
      QRCODE_section : {"absent", "present"},
      QRCODE_save : {"yes"},
      QRCODE_save_path : {None} ]

VARIABLES
    cfg,            \* the configuration file read by pibooth_startup
    files,          \* paths of the regular files on disk (pictures, thumbnails, QR codes, template)
    manifestFile,   \* content of the file at the manifest path
    tmpFile,        \* content of the temporary file of the manifest write in progress
    galleryFile,    \* content of the gallery output file
    app,            \* attributes of the shared application object
    pc,             \* position of state_processing_exit ("idle": not running)
    found,          \* local: the picture path
    thumb_path,     \* local: the thumbnail path
    qrcode_path,    \* local: result of _wait_for_qrcode
    now,            \* time.time(), in poll intervals since the QR wait started
    end_time,       \* local of _wait_for_qrcode: end
    manifest,       \* local: the list being written
    success,        \* local: result of _write_manifest_atomic ("unset" before it returns)
    raised,         \* TRUE when the last call of the callback ended by an exception
    nevents,        \* capture events fired so far
    files_at_start, \* history: the files on disk when the running event fired
    announced,      \* history: the picture the host saved and announced last
    peer            \* a second process running the manifest stage: [pc, manifest, tmp]

vars == <<cfg, files, manifestFile, tmpFile, galleryFile, app, pc, found, thumb_path,
          qrcode_path, now, end_time, manifest, success, raised, nevents, files_at_start,
          announced, peer>>
locals == <<found, thumb_path, qrcode_path, now, end_time, manifest, success>>
disk == <<files, manifestFile, tmpFile, galleryFile>>

\* ------------------------------------------------- settings (pibooth_startup)
gallery_enabled == BoolOption(cfg.GALLERY_ENABLED, "yes")
gallery_suffix == ThumbSuffix
gallery_output_folder == cfg.GALLERY_OUTPUT_FOLDER
gallery_keep_aspect == BoolOption(cfg.GALLERY_KEEP_ASPECT, "yes")
gallery_update_manifest == BoolOption(cfg.GALLERY_UPDATE_MANIFEST, "yes")
gallery_manifest_name == ManifestName
gallery_manifest_include_base_url == BoolOption(cfg.GALLERY_MANIFEST_INCLUDE_BASE_URL, "yes")
gallery_template == cfg.GALLERY_TEMPLATE
gallery_output == GalleryOutput
gallery_base_url == cfg.GALLERY_BASE_URL
\* q_save_raw is None when the QRCODE section (or its key) is missing
qrcode_save ==
    IF cfg.QRCODE_section = "absent" THEN FALSE ELSE Lower(cfg.QRCODE_save) \in TrueTokens
qrcode_suffix == QrSuffix
qrcode_ext == QrExt
qrcode_save_path == IF cfg.QRCODE_section = "absent" THEN None ELSE cfg.QRCODE_save_path
qrcode_wait_seconds == cfg.GALLERY_QRCODE_WAIT_SECONDS

\* ------------------------------------------------------------ file contents
Absent == [kind |-> "absent", data |-> <<>>]
Garbage == [kind |-> "garbage", data |-> <<>>]        \* unreadable or not JSON
NonArray == [kind |-> "nonarray", data |-> <<>>]      \* valid JSON, not a list
Array(d) == [kind |-> "array", data |-> d]            \* json.dump(d), complete
Partial(d) == [kind |-> "partial", data |-> d]        \* a prefix of json.dump(d)

NonDict == [nondict |-> <<"1">>]                       \* a list element that is no object
IsDict(e) == "nondict" \notin DOMAIN e
Get(e, k) == IF k \in DOMAIN e THEN e[k] ELSE None     \* dict.get

\* ------------------------------------------------------------ pure helpers
ThumbName(final_path) == Stem(final_path.name) \o gallery_suffix \o Suffix(final_path.name)
make_output_path(final_path, output_folder) ==
    IF output_folder # None
    THEN MkPath(final_path.dir \o output_folder, ThumbName(final_path))
    ELSE MkPath(final_path.dir, ThumbName(final_path))

load_manifest(file) == IF file.kind = "array" THEN file.data ELSE <<>>

RECURSIVE RStripSlash(_)
RStripSlash(s) ==
    IF s # <<>> /\ s[Len(s)] = "/" THEN RStripSlash(SubSeq(s, 1, Len(s) - 1)) ELSE s
\* a join that keeps the base URL's trailing slashes
url_join_Concat(base, name) ==
    IF base = None THEN name ELSE base \o <<"/">> \o name
url_join(base, name) ==
    IF base = None THEN name ELSE RStripSlash(base) \o <<"/">> \o name

PicAttrs == <<"previous_picture_file", "last_picture", "last_saved_file", "picture_file">>
QrAttrs == <<"qrcode_file", "qrcode_saved_file", "qrcode_filename", "qrcode_path", "qrcode">>

\* lines 267-276: the canonical attribute, then the legacy aliases in order
discover_filename(a) ==
    LET set == SelectSeq(PicAttrs, LAMBDA n : a[n] # NoPath)
    IN  IF set = <<>> THEN NoPath ELSE a[Head(set)]

QrName(pic_name) == Stem(pic_name) \o qrcode_suffix \o <<".">> \o qrcode_ext

\* a search that starts in the picture's own directory
candidate_dirs_PictureDirFirst(fnd, a) ==
    <<fnd.dir>>
    \o (IF qrcode_save_path # None THEN <<qrcode_save_path>> ELSE <<>>)
    \o (IF a.output_dir # None THEN <<a.output_dir>> ELSE <<>>)
candidate_dirs(fnd, a) ==
    (IF qrcode_save_path # None THEN <<qrcode_save_path>> ELSE <<>>)
    \o (IF a.output_dir # None THEN <<a.output_dir>> ELSE <<>>)
    \o <<fnd.dir>>

locate_qrcode_for_image(fnd, a, fs) ==
    LET hits == SelectSeq(QrAttrs, LAMBDA n : a[n] # NoPath /\ a[n] \in fs)
        dirs == SelectSeq(candidate_dirs(fnd, a), LAMBDA d : MkPath(d, QrName(fnd.name)) \in fs)
    IN  IF hits # <<>> THEN a[Head(hits)]
        ELSE IF ~qrcode_save THEN NoPath
        ELSE IF dirs # <<>> THEN MkPath(Head(dirs), QrName(fnd.name))
        ELSE NoPath

\* lines 318-342: the entry of the picture being processed
BuildEntry(fnd, thumb, qr) ==
    LET thumb_rel == RelativeOrName(thumb, fnd.dir)
        full_rel == fnd.name
        base_url == IF gallery_manifest_include_base_url THEN gallery_base_url ELSE None
        thumb_url == IF base_url # None THEN url_join(base_url, thumb_rel) ELSE thumb_rel
        full_url == IF base_url # None THEN url_join(base_url, full_rel) ELSE full_rel
        qrcode_rel == RelativeOrName(qr, fnd.dir)
        qrcode_url == IF base_url # None THEN url_join(base_url, qrcode_rel) ELSE qrcode_rel
    IN  IF qr # NoPath /\ qrcode_url # None
        THEN [thumb |-> thumb_url, full |-> full_url, filename |-> full_rel,
              qrcode |-> qrcode_url]
        ELSE [thumb |-> thumb_url, full |-> full_url, filename |-> full_rel]

\* line 338: e.get raises on an element that is no dict
FilterRaises(m) == \E i \in 1..Len(m) : ~IsDict(m[i])
\* a dedup that removes nothing
Dedup_KeepAll(m, e) == m
\* a dedup keyed on filename alone
Dedup_ByFilename(m, e) == SelectSeq(m, LAMBDA x : Get(x, "filename") # e.filename)
Dedup(m, e) ==
    SelectSeq(m, LAMBDA x : Get(x, "filename") # e.filename /\ Get(x, "full") # e.full)
\* an insert at the end of the list
InsertEntry_Append(m, e) == m \o <<e>>
\* line 344
InsertEntry(m, e) == <<e>> \o m

\* _write_manifest_atomic, step by step: each maps the contents of the manifest
\* file (mf) and of the temporary file (tf) to their contents after the step
\* the manifest itself opened for writing, instead of a temporary file
TempCreate_InPlace(mf, tf, data) == [mf |-> Partial(data), tf |-> tf]
\* line 174: a fresh, empty temporary file in the manifest's directory
TempCreate(mf, tf, data) == [mf |-> mf, tf |-> Partial(data)]
\* lines 175-176: json.dump into the temporary file, then close
TempDump(mf, tf, data) == [mf |-> mf, tf |-> Array(data)]
\* a rename that merges the two files' lists
TempReplace_Merge(mf, tf) == [mf |-> Array(mf.data \o tf.data), tf |-> Absent]
\* line 177: tmpname.replace(manifest_path)
TempReplace(mf, tf) == [mf |-> tf, tf |-> Absent]

\* ------------------------------------------------------------------- Init
InitApp ==
    [ previous_picture_file |-> NoPath, last_picture |-> NoPath,
      last_saved_file |-> NoPath, picture_file |-> NoPath,
      qrcode_file |-> NoPath, qrcode_saved_file |-> NoPath, qrcode_filename |-> NoPath,
      qrcode_path |-> NoPath, qrcode |-> NoPath,
      output_dir |-> None,
      previous_thumbnail_file |-> NoPath,
      previous_picture_files |-> <<>> ]

\* an entry some earlier run left for a picture (bare names, no QR code)
OldEntry(p) ==
    [thumb |-> <<p>> \o ThumbSuffix \o PicExt, full |-> PicName(p), filename |-> PicName(p)]

InitialManifests ==
    {Absent, Garbage, NonArray, Array(<<>>), Array(<<NonDict>>), Array(<<OldEntry("photo2")>>)}

\* the second process before it reaches its manifest stage
PeerIdle == [pc |-> "idle", manifest |-> <<>>, tmp |-> Absent]

ResetLocals ==
    /\ found' = NoPath
    /\ thumb_path' = NoPath
    /\ qrcode_path' = NoPath
    /\ now' = 0
    /\ end_time' = 0
    /\ manifest' = <<>>
    /\ success' = "unset"

Init ==
    /\ cfg \in RawConfigs
    /\ files = {TemplatePath}
    /\ manifestFile \in InitialManifests
    /\ tmpFile = Absent
    /\ galleryFile = "absent"
    /\ app = InitApp
    /\ pc = "idle"
    /\ found = NoPath
    /\ thumb_path = NoPath
    /\ qrcode_path = NoPath
    /\ now = 0
    /\ end_time = 0
    /\ manifest = <<>>
    /\ success = "unset"
    /\ raised = FALSE
    /\ nevents = 0
    /\ files_at_start = {}
    /\ announced = NoPath
    /\ peer = PeerIdle

\* ------------------------------------------------------------ environment
\* the attributes (indices into PicAttrs) in which the host announces a picture:
\* pibooth itself sets previous_picture_file
AnnounceVia == {1}

\* the host saves picture p, announces it, and fires the callback
HostCapture ==
    /\ pc = "idle"
    /\ nevents < MaxEvents
    /\ \E p \in Pics, i \in AnnounceVia :
         /\ files' = files \cup {PicPath(p)}
         /\ app' = [app EXCEPT ![PicAttrs[i]] = PicPath(p)]
         /\ announced' = PicPath(p)
    /\ pc' = "locate_picture"
    /\ raised' = FALSE
    /\ nevents' = nevents + 1
    /\ files_at_start' = files'
    /\ UNCHANGED <<cfg, peer, manifestFile, tmpFile, galleryFile, locals>>

\* the legacy aliases (indices into PicAttrs) a host may announce a picture in
LegacyVia == {2, 3, 4}

\* a host that never sets previous_picture_file saves picture p, announces it
\* in one legacy alias, leaving the other aliases empty, and fires the callback
HostCaptureLegacy ==
    /\ pc = "idle"
    /\ nevents < MaxEvents
    /\ \E p \in Pics, i \in LegacyVia :
         /\ files' = files \cup {PicPath(p)}
         /\ app' = [n \in DOMAIN app |->
                      IF n = PicAttrs[i] THEN PicPath(p)
                      ELSE IF n \in {PicAttrs[j] : j \in LegacyVia} THEN NoPath
                      ELSE app[n]]
         /\ announced' = PicPath(p)
    /\ pc' = "locate_picture"
    /\ raised' = FALSE
    /\ nevents' = nevents + 1
    /\ files_at_start' = files'
    /\ UNCHANGED <<cfg, peer, manifestFile, tmpFile, galleryFile, locals>>

\* the host fires the callback again without a new picture
HostFires ==
    /\ pc = "idle"
    /\ nevents < MaxEvents
    /\ pc' = "locate_picture"
    /\ raised' = FALSE
    /\ nevents' = nevents + 1
    /\ files_at_start' = files
    /\ UNCHANGED <<cfg, peer, announced, disk, app, locals>>

\* the host announces a picture whose file is not on disk (the save failed, or
\* the file was moved away) and fires the callback
HostAnnouncesMissing ==
    /\ pc = "idle"
    /\ nevents < MaxEvents
    /\ \E p \in Pics :
         /\ PicPath(p) \notin files
         /\ app' = [app EXCEPT !.previous_picture_file = PicPath(p)]
         /\ announced' = PicPath(p)
    /\ pc' = "locate_picture"
    /\ raised' = FALSE
    /\ nevents' = nevents + 1
    /\ files_at_start' = files
    /\ UNCHANGED <<cfg, peer, disk, locals>>

\* the QR code file the QR plugin makes for the picture last announced
AnnouncedQr == MkPath(discover_filename(app).dir, QrName(discover_filename(app).name))

\* the QR plugin writes the QR code of the announced picture, at any moment
QrPluginSaves ==
    /\ pc # "killed"
    /\ discover_filename(app) # NoPath
    /\ AnnouncedQr \notin files
    /\ files' = files \cup {AnnouncedQr}
    /\ UNCHANGED <<cfg, peer, announced, manifestFile, tmpFile, galleryFile, app, pc, locals, raised, nevents,
                   files_at_start>>

\* the QR plugin publishes the file it wrote in the attribute qrcode_file
QrPluginPublishes ==
    /\ pc # "killed"
    /\ AnnouncedQr \in files
    /\ app.qrcode_file # AnnouncedQr
    /\ app' = [app EXCEPT !.qrcode_file = AnnouncedQr]
    /\ UNCHANGED <<cfg, peer, announced, disk, pc, locals, raised, nevents, files_at_start>>

\* the process is killed during the manifest write and does not run again
Interrupt ==
    /\ pc \in {"wm_create", "wm_dump", "wm_replace"}
    /\ pc' = "killed"
    /\ ResetLocals
    /\ files_at_start' = {}
    /\ UNCHANGED <<cfg, peer, announced, disk, app, raised, nevents>>

\* --------------------------------------------------- state_processing_exit
\* the callback returns to the host (exc: an exception leaves it); a temporary
\* file a failed write left behind is no longer tracked
Return(exc) ==
    /\ pc' = "idle"
    /\ raised' = exc
    /\ files_at_start' = {}
    /\ tmpFile' = Absent
    /\ ResetLocals

\* a discovery that does not check that the picture file exists
LocatePicture_NoExistsCheck ==
    /\ pc = "locate_picture"
    /\ LET filename == discover_filename(app)
       IN  IF ~gallery_enabled \/ filename = NoPath
           THEN Return(FALSE)
           ELSE /\ found' = filename
                /\ pc' = "make_output_path"
                /\ UNCHANGED <<tmpFile, thumb_path, qrcode_path, now, end_time, manifest,
                               success, raised, files_at_start>>
    /\ UNCHANGED <<cfg, peer, announced, files, manifestFile, galleryFile, app, nevents>>

\* lines 263-284: enabled check, picture discovery, existence check
LocatePicture ==
    /\ pc = "locate_picture"
    /\ LET filename == discover_filename(app)
       IN  IF ~gallery_enabled \/ filename = NoPath \/ filename \notin files
           THEN Return(FALSE)
           ELSE /\ found' = filename
                /\ pc' = "make_output_path"
                /\ UNCHANGED <<tmpFile, thumb_path, qrcode_path, now, end_time, manifest,
                               success, raised, files_at_start>>
    /\ UNCHANGED <<cfg, peer, announced, files, manifestFile, galleryFile, app, nevents>>

\* lines 286-287: _make_output_path runs outside any try block; its mkdir
\* (only made when an output folder is configured) may raise
MakeOutputPathRaises ==
    /\ pc = "make_output_path"
    /\ gallery_output_folder # None
    /\ Return(TRUE)
    /\ UNCHANGED <<cfg, peer, announced, files, manifestFile, galleryFile, app, nevents>>

MakeOutputPath ==
    /\ pc = "make_output_path"
    /\ thumb_path' = make_output_path(found, gallery_output_folder)
    /\ pc' = "thumbnail"
    /\ UNCHANGED <<cfg, peer, announced, disk, app, found, qrcode_path, now, end_time, manifest, success,
                   raised, nevents, files_at_start>>

\* lines 289-291
GenerateThumbnail ==
    /\ pc = "thumbnail"
    /\ files' = files \cup {thumb_path}
    /\ pc' = "publish_facts"
    /\ UNCHANGED <<cfg, peer, announced, manifestFile, tmpFile, galleryFile, app, locals, raised, nevents, files_at_start>>

\* a failure that is logged and not returned from
GenerateThumbnailFails_FallsThrough ==
    /\ pc = "thumbnail"
    /\ pc' = "publish_facts"
    /\ UNCHANGED <<cfg, peer, announced, disk, app, locals, raised, nevents, files_at_start>>

\* lines 292-294: the thumbnail could not be made; the event is abandoned
GenerateThumbnailFails ==
    /\ pc = "thumbnail"
    /\ Return(FALSE)
    /\ UNCHANGED <<cfg, peer, announced, files, manifestFile, galleryFile, app, nevents>>

\* a publication that adds the picture at the end of the list
PublishFacts_Appends ==
    /\ pc = "publish_facts"
    /\ app' = [app EXCEPT !.previous_picture_file = found,
                          !.previous_thumbnail_file = thumb_path,
                          !.previous_picture_files = @ \o <<found>>]
    /\ pc' = "qr_start"
    /\ UNCHANGED <<cfg, peer, announced, disk, locals, raised, nevents, files_at_start>>

\* lines 297-310
PublishFacts ==
    /\ pc = "publish_facts"
    /\ app' = [app EXCEPT !.previous_picture_file = found,
                          !.previous_thumbnail_file = thumb_path,
                          !.previous_picture_files = <<found>> \o @]
    /\ pc' = "qr_start"
    /\ UNCHANGED <<cfg, peer, announced, disk, locals, raised, nevents, files_at_start>>

\* a manifest stage that runs whatever the flag says
AfterWait_AlwaysSync == "sync_manifest"
\* the stage after the QR wait (line 316)
AfterWait == IF gallery_update_manifest THEN "sync_manifest" ELSE "publish_gallery"

\* line 251: end = time.time() + timeout
WaitStart ==
    /\ pc = "qr_start"
    /\ now' = 0
    /\ end_time' = 0 + qrcode_wait_seconds
    /\ pc' = "qr_poll"
    /\ UNCHANGED <<cfg, peer, announced, disk, app, found, thumb_path, qrcode_path, manifest, success,
                   raised, nevents, files_at_start>>

\* lines 252-255 and 257: the loop test, one locate call, and the two returns
\* (a return ends the life of the function's clock reading and of end)
WaitPoll ==
    /\ pc = "qr_poll"
    /\ LET p == locate_qrcode_for_image(found, app, files)
       IN  IF now < end_time /\ p = NoPath
           THEN /\ pc' = "qr_sleep"
                /\ UNCHANGED <<qrcode_path, now, end_time>>
           ELSE /\ qrcode_path' = IF now < end_time THEN p ELSE NoPath
                /\ pc' = AfterWait
                /\ now' = 0
                /\ end_time' = 0
    /\ UNCHANGED <<cfg, peer, announced, disk, app, found, thumb_path, manifest, success, raised, nevents,
                   files_at_start>>

\* time.sleep(poll) takes one poll interval, or overshoots into the next
SleepTicks == {1, 2}
\* a sleep during which the clock does not advance
SleepFor_NoAdvance(d) == now
\* time.time() after a sleep of d poll intervals
SleepFor(d) == now + d

\* line 256
WaitSleep ==
    /\ pc = "qr_sleep"
    /\ \E d \in SleepTicks : now' = SleepFor(d)
    /\ pc' = "qr_poll"
    /\ UNCHANGED <<cfg, peer, announced, disk, app, found, thumb_path, qrcode_path, end_time, manifest,
                   success, raised, nevents, files_at_start>>

\* lines 317-344: build the entry, load, dedup, insert; the filter raising
\* (caught at line 351) skips the write
SyncManifest ==
    /\ pc = "sync_manifest"
    /\ LET e == BuildEntry(found, thumb_path, qrcode_path)
           loaded == load_manifest(manifestFile)
       IN  IF FilterRaises(loaded)
           THEN manifest' = manifest /\ pc' = "publish_gallery"
           ELSE manifest' = InsertEntry(Dedup(loaded, e), e) /\ pc' = "wm_create"
    /\ UNCHANGED <<cfg, peer, announced, disk, app, found, thumb_path, qrcode_path, now, end_time, success,
                   raised, nevents, files_at_start>>

\* a failed write that abandons the event
WriteFails_Aborts ==
    /\ pc \in {"wm_create", "wm_dump", "wm_replace"}
    /\ Return(FALSE)
    /\ UNCHANGED <<cfg, peer, announced, files, manifestFile, galleryFile, app, nevents>>

\* a step of _write_manifest_atomic raises: line 180 returns False
WriteFails ==
    /\ pc \in {"wm_create", "wm_dump", "wm_replace"}
    /\ success' = "false"
    /\ pc' = "publish_gallery"
    /\ UNCHANGED <<cfg, peer, announced, disk, app, found, thumb_path, qrcode_path, now, end_time, manifest,
                   raised, nevents, files_at_start>>

WriteStep(next, r) ==
    /\ manifestFile' = r.mf
    /\ tmpFile' = r.tf
    /\ pc' = next
    /\ UNCHANGED <<cfg, peer, announced, files, galleryFile, app, found, thumb_path, qrcode_path, now,
                   end_time, manifest, raised, nevents, files_at_start>>

WmCreate ==
    /\ pc = "wm_create"
    /\ WriteStep("wm_dump", TempCreate(manifestFile, tmpFile, manifest))
    /\ UNCHANGED success

WmDump ==
    /\ pc = "wm_dump"
    /\ WriteStep("wm_replace", TempDump(manifestFile, tmpFile, manifest))
    /\ UNCHANGED success

\* lines 177-178
WmReplace ==
    /\ pc = "wm_replace"
    /\ WriteStep("publish_gallery", TempReplace(manifestFile, tmpFile))
    /\ success' = "true"

\* lines 355-365: nothing to do when no template is configured or it is not a
\* file; else the copy succeeds, or fails before the output file is opened
\* (file unchanged), or fails after (file left truncated)
PublishGallery ==
    /\ pc = "publish_gallery"
    /\ IF gallery_template # NoPath /\ gallery_template \in files
       THEN galleryFile' \in {"copy", galleryFile, "truncated"}
       ELSE galleryFile' = galleryFile
    /\ Return(FALSE)
    /\ UNCHANGED <<cfg, peer, announced, files, manifestFile, app, nevents>>

Handler ==
    \/ LocatePicture
    \/ MakeOutputPathRaises
    \/ MakeOutputPath
    \/ GenerateThumbnail
    \/ GenerateThumbnailFails
    \/ PublishFacts
    \/ WaitStart
    \/ WaitPoll
    \/ WaitSleep
    \/ SyncManifest
    \/ WriteFails
    \/ WmCreate
    \/ WmDump
    \/ WmReplace
    \/ PublishGallery

Next ==
    \/ HostCapture
    \/ HostFires
    \/ QrPluginSaves
    \/ QrPluginPublishes
    \/ Interrupt
    \/ Handler

Spec == Init /\ [][Next]_vars

\* the callback runs synchronously on the host's thread: a step of it that can
\* be taken is taken
LiveSpec == Spec /\ WF_vars(Handler)

\* a run that starts with no manifest, or an empty one
InitFresh == Init /\ manifestFile \in {Absent, Array(<<>>)}
SpecFresh == InitFresh /\ [][Next]_vars

\* ------------------------------------------------ a second, parallel process
\* Another process runs the same callback for another picture of the same
\* directory; of it, the steps that touch the manifest (lines 337-346 and
\* _write_manifest_atomic) are modelled. NamedTemporaryFile gives it a
\* temporary file of its own.
PeerPicture == PicPath("photo0")
PeerEntry ==
    BuildEntry(PeerPicture, make_output_path(PeerPicture, gallery_output_folder), NoPath)

\* lines 337-344 in the second process
PeerSync ==
    /\ peer.pc = "idle"
    /\ pc # "killed"
    /\ LET loaded == load_manifest(manifestFile)
       IN  IF FilterRaises(loaded)
           THEN peer' = [peer EXCEPT !.pc = "failed"]
           ELSE peer' = [peer EXCEPT !.pc = "create",
                                     !.manifest = InsertEntry(Dedup(loaded, PeerEntry),
                                                              PeerEntry)]
    /\ UNCHANGED <<cfg, announced, disk, app, pc, locals, raised, nevents, files_at_start>>

PeerStep(from, to, r) ==
    /\ peer.pc = from
    /\ manifestFile' = r.mf
    /\ peer' = [peer EXCEPT !.pc = to, !.tmp = r.tf]
    /\ UNCHANGED <<cfg, announced, files, tmpFile, galleryFile, app, pc, locals, raised,
                   nevents, files_at_start>>

PeerCreate == PeerStep("create", "dump", TempCreate(manifestFile, peer.tmp, peer.manifest))
PeerDump == PeerStep("dump", "replace", TempDump(manifestFile, peer.tmp, peer.manifest))
PeerReplace == PeerStep("replace", "done", TempReplace(manifestFile, peer.tmp))

\* line 180 in the second process
PeerWriteFails ==
    /\ peer.pc \in {"create", "dump", "replace"}
    /\ peer' = [peer EXCEPT !.pc = "failed"]
    /\ UNCHANGED <<cfg, announced, disk, app, pc, locals, raised, nevents, files_at_start>>

Peer ==
    \/ PeerSync
    \/ PeerCreate
    \/ PeerDump
    \/ PeerReplace
    \/ PeerWriteFails

\* the two writers and the host; no QR plugin is installed
NextTwo ==
    \/ HostCapture
    \/ Interrupt
    \/ Handler
    \/ Peer

\* everything of the initial state but the configuration and the manifest
StartState ==
    /\ files = {TemplatePath}
    /\ tmpFile = Absent
    /\ galleryFile = "absent"
    /\ app = InitApp
    /\ pc = "idle"
    /\ found = NoPath
    /\ thumb_path = NoPath
    /\ qrcode_path = NoPath
    /\ now = 0
    /\ end_time = 0
    /\ manifest = <<>>
    /\ success = "unset"
    /\ raised = FALSE
    /\ nevents = 0
    /\ files_at_start = {}
    /\ announced = NoPath
    /\ peer = PeerIdle

\* one configuration under which every stage can run: an output folder and a
\* QR wait of one poll interval
OneConfig ==
    {c \in RawConfigs : /\ c.GALLERY_OUTPUT_FOLDER = <<"thumbs">>
                        /\ c.GALLERY_QRCODE_WAIT_SECONDS = 1
                        /\ c.QRCODE_section = "present"}

\* entries left by earlier runs that share one key with a picture's entry: its
\* full value under another filename, and its filename under another full value
AliasEntry(p) ==
    [thumb |-> <<"alias_thumb", ".", "jpg">>, full |-> PicName(p),
     filename |-> <<"alias", ".", "jpg">>]
StaleUrlEntry(p) ==
    [thumb |-> <<p>> \o ThumbSuffix \o PicExt, full |-> <<"http://old", "/">> \o PicName(p),
     filename |-> PicName(p)]

\* manifests with several entries, related and unrelated to the pictures taken
MergeManifests ==
    { Array(<<OldEntry("photo2"), OldEntry("photo0"), AliasEntry("photo1")>>),
      Array(<<OldEntry("photo0"), StaleUrlEntry("photo1"), AliasEntry("photo2"),
              OldEntry("photo9")>>),
      Array(<<OldEntry("photo1"), OldEntry("photo9"), OldEntry("photo2"),
              OldEntry("photo0")>>) }

InitMerge == cfg \in OneConfig /\ manifestFile \in MergeManifests /\ StartState
SpecMerge == InitMerge /\ [][Next]_vars

InitTwo ==
    /\ cfg \in OneConfig
    /\ manifestFile \in {Absent, Array(<<OldEntry("photo9")>>)}
    /\ StartState
SpecTwoWriters == InitTwo /\ [][NextTwo]_vars

\* configuration c with option k set to the raw string v
WithOption(c, k, v) == [c EXCEPT ![k] = v]

\* the plugin enabled and disabled
EarlyConfigs == {WithOption(c, "GALLERY_ENABLED", v) : c \in OneConfig, v \in {"yes", "no"}}

\* a host that also announces pictures that are not on disk; no QR plugin
NextEarly ==
    \/ HostCapture
    \/ HostFires
    \/ HostAnnouncesMissing
    \/ Interrupt
    \/ Handler

InitEarly ==
    /\ cfg \in EarlyConfigs
    /\ manifestFile \in {Absent, Array(<<OldEntry("photo9")>>)}
    /\ StartState
SpecEarly == InitEarly /\ [][NextEarly]_vars

\* --------------------------------------- _locate_qrcode_for_image on its own
\* the file attribute n of the shared context may name
AttrFile(n) == MkPath(<<"published">>, <<n, ".", "png">>)
\* shared contexts: each QR attribute unset or naming its file, output_dir set or not
LocateApps ==
    {[InitApp EXCEPT !.qrcode_file = f[1], !.qrcode_saved_file = f[2],
                     !.qrcode_filename = f[3], !.qrcode_path = f[4], !.qrcode = f[5],
                     !.output_dir = o] :
        f \in {g \in [1..5 -> {NoPath} \cup {AttrFile(QrAttrs[i]) : i \in 1..5}] :
                 \A i \in 1..5 : g[i] \in {NoPath, AttrFile(QrAttrs[i])}},
        o \in {None, HostOutDir}}
\* QRCODE sections: missing, or with save on or off and a save_path or none
LocateConfigs ==
    {WithOption(WithOption(WithOption(c, "QRCODE_section", sec), "QRCODE_save", sv),
                "QRCODE_save_path", sp) :
        c \in OneConfig, sec \in {"absent", "present"}, sv \in {"yes", "no"},
        sp \in {None, QrSaveDir}}
\* the files that may be on disk: each attribute's file, and the expected name
\* in each of the three directories searched
LocateFiles ==
    {AttrFile(QrAttrs[i]) : i \in 1..5}
    \cup {MkPath(d, QrName(PicName("photo1"))) : d \in {QrSaveDir, HostOutDir, PicDir}}

InitLocate ==
    /\ cfg \in LocateConfigs
    /\ files \in SUBSET LocateFiles
    /\ app \in LocateApps
    /\ found = PicPath("photo1")
    /\ pc = "locate_call"
    /\ manifestFile = Absent
    /\ tmpFile = Absent
    /\ galleryFile = "absent"
    /\ thumb_path = NoPath
    /\ qrcode_path = NoPath
    /\ now = 0
    /\ end_time = 0
    /\ manifest = <<>>
    /\ success = "unset"
    /\ raised = FALSE
    /\ nevents = 0
    /\ files_at_start = {}
    /\ announced = NoPath
    /\ peer = PeerIdle

\* one call of _locate_qrcode_for_image(found, app)
LocateCall ==
    /\ pc = "locate_call"
    /\ qrcode_path' = locate_qrcode_for_image(found, app, files)
    /\ pc' = "located"
    /\ UNCHANGED <<cfg, peer, announced, disk, app, found, thumb_path, now, end_time,
                   manifest, success, raised, nevents, files_at_start>>

SpecLocate == InitLocate /\ [][LocateCall]_vars

\* ------------------------------------------------------ the boolean options
\* raw strings a configuration file may give a boolean option
RawBools == {"", "1", "0", "true", "True", "yes", "Yes", "YES", "on", "ON", "no", "NO", "off"}
BoolKeys ==
    {"GALLERY_ENABLED", "GALLERY_KEEP_ASPECT", "GALLERY_UPDATE_MANIFEST",
     "GALLERY_MANIFEST_INCLUDE_BASE_URL", "QRCODE_save"}
\* configurations in which one boolean option has any raw value
OptionConfigs == {WithOption(c, k, v) : c \in OneConfig, k \in BoolKeys, v \in RawBools}

InitOptions ==
    /\ cfg \in OptionConfigs
    /\ manifestFile \in {Absent, Array(<<OldEntry("photo9")>>)}
    /\ StartState
SpecOptions == InitOptions /\ [][NextEarly]_vars

\* -------------------------------------------------------------- base URLs
\* base URLs with no, one and two trailing slashes, and none configured
BaseUrls == {None, <<"http://x">>, <<"http://x", "/">>, <<"http://x", "/", "/">>}
UrlConfigs ==
    {WithOption(WithOption(c, "GALLERY_BASE_URL", b), "GALLERY_MANIFEST_INCLUDE_BASE_URL", f) :
        c \in OneConfig, b \in BaseUrls, f \in {"yes", "no"}}
InitUrls == cfg \in UrlConfigs /\ manifestFile = Absent /\ StartState
SpecUrls == InitUrls /\ [][Next]_vars

\* ------------------------------------------------- manifest updating on and off
FlagConfigs == {WithOption(c, "GALLERY_UPDATE_MANIFEST", v) : c \in OneConfig, v \in {"yes", "no"}}
InitFlag ==
    /\ cfg \in FlagConfigs
    /\ manifestFile \in {Absent, Garbage, Array(<<OldEntry("photo9")>>)}
    /\ StartState
SpecFlag == InitFlag /\ [][Next]_vars

\* ------------------------------------------- hosts that use a legacy alias
NextLegacy ==
    \/ HostCaptureLegacy
    \/ Interrupt
    \/ Handler
InitLegacy == cfg \in OneConfig /\ manifestFile = Absent /\ StartState
SpecLegacy == InitLegacy /\ [][NextLegacy]_vars

\* ------------------------------------------------------------------ claims
Entries == manifestFile.data
ProcessedEntry == BuildEntry(found, thumb_path, qrcode_path)
SameTwice == app.previous_picture_files = <<found, found>>

\* C1: starting from an absent or empty manifest, after any sequence of
\* capture events the manifest on disk holds at most one entry per filename.
C1_OneEntryPerFilename ==
    \A i, j \in 1..Len(Entries) :
        i # j => Get(Entries[i], "filename") # Get(Entries[j], "filename")

\* the second event for one picture has been written, and one entry is left
C1_Witness ==
    pc = "publish_gallery" /\ success = "true" /\ SameTwice /\ Len(Entries) = 1

\* C2: the file at the manifest path changes only in the rename step, and then
\* to the complete new content; it never holds a partially written manifest.
C2_AtomicWrite ==
    [][ /\ manifestFile' # manifestFile =>
             pc = "wm_replace" /\ manifestFile' = Array(manifest)
        /\ manifestFile'.kind # "partial" ]_vars

\* killed between the temporary file's write and the rename: the new content
\* is complete in the temporary file and the manifest still holds the old one
C2_Witness ==
    /\ pc = "killed"
    /\ tmpFile.kind = "array"
    /\ manifestFile.kind = "array"
    /\ manifestFile.data # tmpFile.data

\* C3: after every successful sync the entry of the picture just processed is
\* at index 0, holds the data of this run, and is the only entry with its
\* filename (so a second run for one picture leaves one entry, the newer).
C3_NewestFirstOnce ==
    pc = "publish_gallery" /\ success = "true" =>
        /\ manifestFile.kind = "array"
        /\ Len(Entries) >= 1
        /\ Entries[1] = ProcessedEntry
        /\ Cardinality({i \in 1..Len(Entries) :
                          Get(Entries[i], "filename") = found.name}) = 1

\* the second run for one picture found a QR code that was not there when it
\* fired, and its entry replaced the first run's
C3_Witness ==
    /\ pc = "publish_gallery" /\ success = "true" /\ SameTwice
    /\ "qrcode" \in DOMAIN Entries[1]
    /\ AnnouncedQr \notin files_at_start

\* C4: whatever the manifest file held, a capture event whose write did not
\* fail leaves it a JSON array headed by the entry of the picture processed;
\* from an absent or unparseable file the list written is that entry alone.
C4_SelfHealing ==
    /\ pc = "publish_gallery" /\ gallery_update_manifest /\ success # "false" =>
           manifestFile.kind = "array" /\ Len(Entries) >= 1 /\ Entries[1] = ProcessedEntry
    /\ pc \in {"wm_create", "wm_dump", "wm_replace"}
         /\ manifestFile.kind \in {"absent", "garbage"} => manifest = <<ProcessedEntry>>

\* C5: no call of the callback ends by an exception.
C5_NoExceptionEscapes == raised = FALSE

\* the stages that follow the thumbnail stage
LaterStages ==
    {"publish_facts", "qr_start", "qr_poll", "qr_sleep", "sync_manifest", "wm_create",
     "wm_dump", "wm_replace", "publish_gallery"}

\* C6: a failed thumbnail generation ends the event at once: the shared
\* context, the manifest and the gallery file are as they were, no later stage
\* starts, and a later stage runs only with the thumbnail on disk.
C6_ThumbnailFailureAborts ==
    [][ /\ GenerateThumbnailFails =>
             /\ pc' = "idle"
             /\ app' = app
             /\ manifestFile' = manifestFile
             /\ galleryFile' = galleryFile
        /\ pc' \in LaterStages => thumb_path' \in files' ]_vars

\* one event found its picture and ended without an exception, publishing
\* nothing and writing nothing
C6_Witness ==
    /\ pc = "idle" /\ nevents = 1 /\ raised = FALSE
    /\ app.previous_picture_file \in files
    /\ app.previous_thumbnail_file = NoPath
    /\ galleryFile = "absent"

\* C7: failures after the thumbnail stage do not stop the event. A QR wait
\* that finds nothing is followed by the manifest stage, and the entry then
\* written has no qrcode field; a failed write reports failure, leaves the
\* manifest file with the content that was loaded and is followed by the
\* gallery stage; the gallery stage changes neither the manifest nor any file.
C7_StageFailuresNonFatal ==
    [][ /\ pc = "qr_poll" /\ pc' \notin {"qr_poll", "qr_sleep"} =>
             pc' = "sync_manifest"
        /\ pc' = "publish_gallery" /\ success' = "true" /\ qrcode_path' = NoPath =>
             /\ "qrcode" \notin DOMAIN manifestFile'.data[1]
             /\ manifestFile'.data[1].filename = found'.name
        /\ success # "false" /\ success' = "false" =>
             pc' = "publish_gallery" /\ manifestFile' = manifestFile
        /\ pc \in {"wm_create", "wm_dump", "wm_replace"}
              /\ pc' \notin {"wm_create", "wm_dump", "wm_replace", "killed"} =>
             pc' = "publish_gallery" /\ success' \in {"true", "false"}
        /\ success' = "false" =>
             manifest' = InsertEntry(Dedup(load_manifest(manifestFile'),
                                           BuildEntry(found', thumb_path', qrcode_path')),
                                     BuildEntry(found', thumb_path', qrcode_path'))
        /\ pc = "publish_gallery" =>
             manifestFile' = manifestFile /\ files \subseteq files' ]_vars

\* the gallery stage is reached after a failed write that left an earlier
\* manifest in place
C7_Witness ==
    pc = "publish_gallery" /\ success = "false" /\ Len(Entries) >= 1

\* the QR code file that the naming convention gives picture fnd, in its directory
ExpectedQr(fnd) == MkPath(fnd.dir, QrName(fnd.name))

\* C8: with no QRCODE section, qrcode_save is false and no entry of the
\* manifest ever has a qrcode field.
C8_NoQrFieldWithoutSection ==
    cfg.QRCODE_section = "absent" =>
        /\ ~qrcode_save
        /\ \A i \in 1..Len(Entries) : "qrcode" \notin DOMAIN Entries[i]

\* C9: with QR saving enabled, when the QR code file of the picture was in the
\* picture's directory as the event fired, the entry written names it.
C9_PresentQrIsListed ==
    pc = "publish_gallery" /\ success = "true" /\ qrcode_save
        /\ ExpectedQr(found) \in files_at_start =>
            /\ "qrcode" \in DOMAIN Entries[1]
            /\ Entries[1].qrcode = QrName(found.name)

Running == pc \notin {"idle", "killed"}

\* C10: the QR wait is a bounded poll. A locate call that finds the file ends
\* the wait with that path and without another sleep; the wait ends with
\* nothing once the timeout has passed; the clock passes the timeout by less
\* than one sleep; and every event that starts comes to its end.
C10_BoundedPoll ==
    /\ [][ pc = "qr_poll" /\ pc' # "qr_poll" =>
             IF now >= end_time
             THEN pc' = AfterWait /\ qrcode_path' = NoPath
             ELSE IF locate_qrcode_for_image(found, app, files) # NoPath
             THEN /\ pc' = AfterWait
                  /\ qrcode_path' = locate_qrcode_for_image(found, app, files)
             ELSE pc' = "qr_sleep" ]_vars
    /\ [](pc \in {"qr_poll", "qr_sleep"} => now < end_time + 2)
    /\ (Running ~> ~Running)

\* the wait has polled, slept and polled again without finding the file, and
\* the timeout has now passed
C10_Witness ==
    pc = "qr_poll" /\ end_time >= 2 /\ now >= end_time

\* the entries of list m that share neither filename fname nor full value full
Unrelated(m, fname, full) ==
    SelectSeq(m, LAMBDA x : Get(x, "filename") # fname /\ Get(x, "full") # full)

\* C11: a sync for picture P writes P's entry followed by exactly the
\* pre-existing entries that differ from it in filename and in full, each
\* unchanged and in their original order.
C11_UnrelatedEntriesKept ==
    [][ manifestFile' # manifestFile =>
          /\ manifestFile'.data[1].filename = found.name
          /\ Tail(manifestFile'.data) =
                Unrelated(load_manifest(manifestFile), found.name,
                          BuildEntry(found, thumb_path, qrcode_path).full) ]_vars

\* photo1 was synced into a list of three: its alias entry went, and the two
\* unrelated entries follow the new one in their old order
C11_Witness ==
    /\ pc = "publish_gallery" /\ success = "true" /\ found = PicPath("photo1")
    /\ Len(Entries) = 3
    /\ Entries[2] = OldEntry("photo2")
    /\ Entries[3] = OldEntry("photo0")

\* C12: with a second process writing the same manifest, the file is never
\* partial and changes only by a rename, which makes it the complete list of
\* the process that renamed, whatever the other process wrote before.
C12_LastRenameWins ==
    /\ [](manifestFile.kind # "partial")
    /\ [][ /\ manifestFile' # manifestFile =>
                \/ pc = "wm_replace" /\ success' = "true"
                \/ peer.pc = "replace" /\ peer'.pc = "done"
           /\ pc = "wm_replace" /\ success' = "true" => manifestFile' = Array(manifest)
           /\ peer.pc = "replace" /\ peer'.pc = "done" =>
                manifestFile' = Array(peer.manifest) ]_vars

\* both processes renamed, this one last: the entry the second process wrote
\* is not in the manifest
C12_Witness ==
    /\ pc = "publish_gallery" /\ success = "true"
    /\ peer.pc = "done"
    /\ \A i \in 1..Len(Entries) : Entries[i].filename # PeerPicture.name

\* the callback is at its start and one of the three skip conditions holds
MustSkip ==
    /\ pc = "locate_picture"
    /\ \/ ~gallery_enabled
       \/ \A n \in {"previous_picture_file", "last_picture", "last_saved_file",
                    "picture_file"} : app[n] = NoPath
       \/ announced \notin files

\* C13: when the plugin is disabled, no picture path is in the canonical
\* attribute or an alias, or the picture file is not on disk, the callback
\* returns at once: no file is created, no attribute is written, the manifest
\* and the gallery file stay as they are, and no exception leaves it.
C13_EarlyExitsSkip ==
    /\ [][ MustSkip /\ pc' # pc =>
             /\ pc' = "idle"
             /\ raised' = FALSE
             /\ files' = files
             /\ app' = app
             /\ manifestFile' = manifestFile
             /\ tmpFile' = tmpFile
             /\ galleryFile' = galleryFile ]_vars
    /\ [](~gallery_enabled => pc \in {"idle", "locate_picture"})

\* an event for a picture that is not on disk has run and left nothing
C13_Witness ==
    /\ pc = "idle" /\ nevents = 1 /\ gallery_enabled
    /\ announced # NoPath /\ announced \notin files
    /\ app.previous_picture_file = announced
    /\ app.previous_thumbnail_file = NoPath
    /\ files = {TemplatePath}

\* C14: when the thumbnail stage has succeeded, the next step publishes the
\* picture path, the thumbnail path and the list of pictures with the new one
\* put before those of earlier events; the three hold through the QR wait and
\* the manifest stage, and nothing else changes the list.
C14_FactsPublishedNewestFirst ==
    /\ [][ /\ pc = "publish_facts" /\ pc' # pc =>
                /\ pc' = "qr_start"
                /\ app'.previous_picture_files = <<found>> \o app.previous_picture_files
           /\ app'.previous_picture_files # app.previous_picture_files =>
                pc = "publish_facts" ]_vars
    /\ [](pc \in {"qr_start", "qr_poll", "qr_sleep", "sync_manifest"} =>
            /\ app.previous_picture_file = found
            /\ app.previous_thumbnail_file = thumb_path
            /\ thumb_path \in files
            /\ Head(app.previous_picture_files) = found)

\* the second event, for another picture than the first, is about to wait
C14_Witness ==
    /\ pc = "qr_start"
    /\ Len(app.previous_picture_files) = 2
    /\ app.previous_picture_files[1] = announced
    /\ app.previous_picture_files[2] # announced

\* the attributes and the directories in the order of the claim
AttrOrder == <<"qrcode_file", "qrcode_saved_file", "qrcode_filename", "qrcode_path", "qrcode">>
DirOrder == <<qrcode_save_path, app.output_dir, found.dir>>
ExpectedIn(d) == MkPath(d, Stem(found.name) \o <<"_qrcode", ".", "png">>)
AttrHits == {i \in 1..5 : app[AttrOrder[i]] # NoPath /\ app[AttrOrder[i]] \in files}
DirHits == {i \in 1..3 : DirOrder[i] # None /\ ExpectedIn(DirOrder[i]) \in files}
Least(S) == CHOOSE i \in S : \A j \in S : i <= j

\* C15: the locator returns the value of the first of the five attributes, in
\* their order, that names an existing file; if there is none and QR saving is
\* on, the expected name in the first of save directory, output directory and
\* picture directory that holds it; otherwise nothing.
C15_LocatePriority ==
    pc = "located" =>
        qrcode_path = IF AttrHits # {} THEN app[AttrOrder[Least(AttrHits)]]
                      ELSE IF qrcode_save /\ DirHits # {}
                      THEN ExpectedIn(DirOrder[Least(DirHits)])
                      ELSE NoPath

\* no attribute names an existing file, the save directory is configured but
\* holds nothing, and the output directory wins over the picture's directory
C15_Witness ==
    /\ pc = "located"
    /\ AttrHits = {}
    /\ app.qrcode # NoPath
    /\ DirHits = {2, 3}
    /\ qrcode_save_path # None
    /\ qrcode_path = ExpectedIn(HostOutDir)

\* the raw strings that are one of 1, true, yes, on in some letter case
IsTrueToken(raw) == raw \in {"1", "true", "True", "yes", "Yes", "YES", "on", "ON"}

\* C16: each boolean option is true exactly when its raw string is one of the
\* tokens 1, true, yes, on in any letter case, and false for every other raw
\* string, the empty one included.
C16_BoolTokens ==
    /\ gallery_enabled = IsTrueToken(cfg.GALLERY_ENABLED)
    /\ gallery_keep_aspect = IsTrueToken(cfg.GALLERY_KEEP_ASPECT)
    /\ gallery_update_manifest = IsTrueToken(cfg.GALLERY_UPDATE_MANIFEST)
    /\ gallery_manifest_include_base_url = IsTrueToken(cfg.GALLERY_MANIFEST_INCLUDE_BASE_URL)
    /\ qrcode_save = (cfg.QRCODE_section = "present" /\ IsTrueToken(cfg.QRCODE_save))

\* url is base without its trailing slashes, one slash, and the name n
JoinedOnce(url, base, n) ==
    \E k \in 0..Len(base) :
        /\ k = 0 \/ base[k] # "/"
        /\ \A i \in (k + 1)..Len(base) : base[i] = "/"
        /\ url = SubSeq(base, 1, k) \o <<"/">> \o n
\* url is what the claim gives an entry field of relative name n
FieldIs(url, n) ==
    IF cfg.GALLERY_MANIFEST_INCLUDE_BASE_URL = "yes" /\ cfg.GALLERY_BASE_URL # <<>>
    THEN JoinedOnce(url, cfg.GALLERY_BASE_URL, n)
    ELSE url = n
\* the thumbnail's name relative to the picture's directory
ThumbRel ==
    (IF cfg.GALLERY_OUTPUT_FOLDER # <<>> THEN cfg.GALLERY_OUTPUT_FOLDER \o <<"/">> ELSE <<>>)
    \o thumb_path.name

\* C17: in the entry written, filename is the picture's base name, and thumb,
\* full and qrcode are the relative names, each behind the base URL and exactly
\* one slash when the include flag is on and a base URL is configured.
C17_EntryFields ==
    pc = "publish_gallery" /\ success = "true" =>
        /\ Entries[1].filename = found.name
        /\ FieldIs(Entries[1].full, found.name)
        /\ FieldIs(Entries[1].thumb, ThumbRel)
        /\ "qrcode" \in DOMAIN Entries[1] => FieldIs(Entries[1].qrcode, qrcode_path.name)
        /\ ("qrcode" \in DOMAIN Entries[1]) = (qrcode_path # NoPath)

\* an entry with a QR code was written under a base URL that ends with a slash
C17_Witness ==
    /\ pc = "publish_gallery" /\ success = "true"
    /\ cfg.GALLERY_BASE_URL = <<"http://x", "/">>
    /\ cfg.GALLERY_MANIFEST_INCLUDE_BASE_URL = "yes"
    /\ "qrcode" \in DOMAIN Entries[1]
    /\ Entries[1].full = <<"http://x", "/">> \o found.name

ManifestStages == {"sync_manifest", "wm_create", "wm_dump", "wm_replace"}

\* C18: with the update-manifest flag off the callback never enters the
\* manifest stage: the manifest file keeps its content, no temporary file is
\* made, the QR wait is followed by the gallery stage, and the gallery stage
\* is reached with the thumbnail made and published.
C18_FlagOffLeavesManifest ==
    /\ [][ cfg.GALLERY_UPDATE_MANIFEST = "no" =>
             /\ manifestFile' = manifestFile
             /\ tmpFile' = tmpFile
             /\ pc = "qr_poll" /\ pc' \notin {"qr_poll", "qr_sleep"} =>
                  pc' = "publish_gallery" ]_vars
    /\ [](cfg.GALLERY_UPDATE_MANIFEST = "no" =>
            /\ pc \notin ManifestStages
            /\ tmpFile = Absent
            /\ manifest = <<>>
            /\ success = "unset"
            /\ pc = "publish_gallery" =>
                 thumb_path \in files /\ app.previous_thumbnail_file = thumb_path)

\* flag off: the thumbnail is made and published, the QR wait found the QR
\* code, the gallery stage is next, and the unreadable manifest is as it was
C18_Witness ==
    /\ cfg.GALLERY_UPDATE_MANIFEST = "no"
    /\ pc = "publish_gallery"
    /\ qrcode_path # NoPath
    /\ app.previous_picture_file = found
    /\ manifestFile = Garbage

\* C19: whichever recognised attribute the host announces a new picture in,
\* the event processes that picture: the entry written is the entry of the
\* picture announced last.
C19_NewestPictureProcessed ==
    pc = "publish_gallery" /\ success = "true" =>
        /\ found = announced
        /\ Entries[1].filename = announced.name

\* C20: an entry with a qrcode field names the QR code of its own picture.
C20_QrBelongsToPicture ==
    \A i \in 1..Len(Entries) :
        "qrcode" \in DOMAIN Entries[i] =>
            Entries[i].qrcode = Stem(Entries[i].filename) \o <<"_qrcode", ".", "png">>

====
